---- MODULE Spec2Model ----
(***************************************************************************)
(* LRUfy: the LRUCache engine (lru-cache.ts) and its recency list          *)
(* (linked-list.ts) as a state machine.  A cache object is a record; every *)
(* method is an operator from a cache record to the cache record it leaves *)
(* behind, and every public call is one action.                            *)
(***************************************************************************)
EXTENDS Integers, Sequences, FiniteSets, TLC

\* ------------------------------------------------------------------ bounds
MaxTime == 2      \* the clock Date.now() runs over 0..MaxTime
MaxGets == 1      \* get is called at most this often (hits + misses)
MaxDrift == 2     \* calls are made while length and totalSize are at most
                  \* this far from the index (re-entrant callbacks only)

\* --------------------------------------------------------------- constants
Null == 0         \* null: no node, no expiry, no dispose callback
Undefined == -1   \* undefined: an item option left out, an absent result
Infinity == 1000  \* Infinity: the default of max and maxSize

Keys == {"a", "b", "c"}
Values == {1, 2, 4}
TtlOpts == {Undefined, 1}         \* options.ttl of a set call
SizeOpts == {Undefined}           \* options.size of a set call
NodeIds == 1..(Cardinality(Keys) + 1)
NoKey == "-"
NoCallback == "null"   \* options.dispose left out

DELETED == "deleted"
EVICTED == "evicted"
EXPIRED == "expired"
OVERWRITTEN == "overwritten"
CACHE_CLEAR == "clear"

VARIABLES
  cache,        \* Map<K, Node>: sequence of [key, node] in insertion order
  nodes,        \* the Node objects: id -> [key, value, prev, next, size, expiry]
  head, tail, length,      \* DoublyLinkedList fields
  totalSize, hits, misses, \* LRUCache counters
  options,      \* InternalLRUCacheOptions, fixed at construction
  now,          \* Date.now()
  disposeLog,   \* dispose callback invocations of the last call, in order
  removed,      \* entries the last call took out of the index, in order
  recency,      \* held keys ordered by last touch, most recent first
  lastOp        \* the public call that has just returned, if any

vars == <<cache, nodes, head, tail, length, totalSize, hits, misses, options,
          now, disposeLog, removed, recency, lastOp>>

\* ------------------------------------------------------------ Map<K, Node>
MapIndex(m, k) ==
  IF \E i \in 1..Len(m) : m[i].key = k
  THEN CHOOSE i \in 1..Len(m) : m[i].key = k
  ELSE 0

MapHas(m, k) == MapIndex(m, k) # 0

MapGet(m, k) == IF MapHas(m, k) THEN m[MapIndex(m, k)].node ELSE Null

MapSet(m, k, n) ==
  IF MapHas(m, k)
  THEN [m EXCEPT ![MapIndex(m, k)] = [key |-> k, node |-> n]]
  ELSE Append(m, [key |-> k, node |-> n])

MapDelete(m, k) == SelectSeq(m, LAMBDA e : e.key # k)

MapKeys(m) == {m[i].key : i \in 1..Len(m)}

\* ------------------------------------------------------------------- Node
Node(key, value) ==
  [key |-> key, value |-> value, prev |-> Null, next |-> Null,
   size |-> 0, expiry |-> Null]

\* the reference a `new Node` yields: an id no live or pending node has
NewNodeId(s) ==
  CHOOSE i \in NodeIds :
    /\ i \notin DOMAIN s.nodes
    /\ \A j \in NodeIds : j \notin DOMAIN s.nodes => i <= j

\* ------------------------------------------------------- DoublyLinkedList
\* mutant of addToFront: the node is appended behind the tail
addToBack(s, node) ==
  LET linked ==
        IF s.head = Null
        THEN [s EXCEPT !.head = node, !.tail = node]
        ELSE [s EXCEPT !.nodes[node].prev = s.tail,
                       !.nodes[s.tail].next = node,
                       !.tail = node]
  IN [linked EXCEPT !.length = s.length + 1]

\* mutant of addToFront: the old head is not linked back to the new one
addToFrontNoBackLink(s, node) ==
  LET linked ==
        IF s.head = Null
        THEN [s EXCEPT !.head = node, !.tail = node]
        ELSE [s EXCEPT !.nodes[node].next = s.head,
                       !.head = node]
  IN [linked EXCEPT !.length = s.length + 1]

addToFront(s, node) ==
  LET linked ==
        IF s.head = Null
        THEN [s EXCEPT !.head = node, !.tail = node]
        ELSE [s EXCEPT !.nodes[node].next = s.head,
                       !.nodes[s.head].prev = node,
                       !.head = node]
  IN [linked EXCEPT !.length = s.length + 1]

\* mutant of remove: length is not decremented
removeKeepLength(s, node) ==
  LET n == s.nodes[node]
      s1 == IF n.prev # Null
            THEN [s EXCEPT !.nodes[n.prev].next = n.next]
            ELSE [s EXCEPT !.head = n.next]
      s2 == IF n.next # Null
            THEN [s1 EXCEPT !.nodes[n.next].prev = n.prev]
            ELSE [s1 EXCEPT !.tail = n.prev]
  IN [s2 EXCEPT !.nodes[node].prev = Null,
                !.nodes[node].next = Null]

remove(s, node) ==
  LET n == s.nodes[node]
      s1 == IF n.prev # Null
            THEN [s EXCEPT !.nodes[n.prev].next = n.next]
            ELSE [s EXCEPT !.head = n.next]
      s2 == IF n.next # Null
            THEN [s1 EXCEPT !.nodes[n.next].prev = n.prev]
            ELSE [s1 EXCEPT !.tail = n.prev]
  IN [s2 EXCEPT !.nodes[node].prev = Null,
                !.nodes[node].next = Null,
                !.length = s.length - 1]

\* mutant of moveToFront: the node stays where it is
moveToFrontNever(s, node) == s

moveToFront(s, node) ==
  IF s.head = node THEN s ELSE addToFront(remove(s, node), node)

\* removeTail: the list after the call; the node it returns is s.tail
removeTail(s) == IF s.tail = Null THEN s ELSE remove(s, s.tail)

listClear(s) == [s EXCEPT !.head = Null, !.tail = Null, !.length = 0]

\* the node ids met following next from n, at most fuel of them
RECURSIVE Walk(_, _, _)
Walk(ns, n, fuel) ==
  IF n = Null \/ fuel = 0 \/ n \notin DOMAIN ns
  THEN <<>>
  ELSE <<n>> \o Walk(ns, ns[n].next, fuel - 1)

\* the node ids met following prev from n, at most fuel of them
RECURSIVE WalkBack(_, _, _)
WalkBack(ns, n, fuel) ==
  IF n = Null \/ fuel = 0 \/ n \notin DOMAIN ns
  THEN <<>>
  ELSE <<n>> \o WalkBack(ns, ns[n].prev, fuel - 1)

ListNodes(s) == Walk(s.nodes, s.head, Cardinality(NodeIds))

SeqSet(q) == {q[i] : i \in 1..Len(q)}

\* the sizes of the entries the index holds, from position i on
RECURSIVE SumSizes(_, _)
SumSizes(s, i) ==
  IF i > Len(s.cache)
  THEN 0
  ELSE s.nodes[s.cache[i].node].size + SumSizes(s, i + 1)

\* ------------------------------------------------- node references
\* q without repeated elements, first occurrences kept
RECURSIVE Dedup(_)
Dedup(q) ==
  IF q = <<>>
  THEN <<>>
  ELSE LET r == Dedup(SubSeq(q, 1, Len(q) - 1))
       IN IF q[Len(q)] \in SeqSet(r) THEN r ELSE Append(r, q[Len(q)])

\* Node references carry no meaning of their own: when a call returns, the
\* nodes nothing refers to any more are dropped and the live ones are numbered
\* in list order (then index order)
Normalize(s) ==
  LET order == Dedup(ListNodes(s)
                     \o [i \in 1..Len(s.cache) |-> s.cache[i].node]
                     \o WalkBack(s.nodes, s.tail, Cardinality(NodeIds)))
      R(n) == IF n \in SeqSet(order)
              THEN CHOOSE i \in 1..Len(order) : order[i] = n
              ELSE Null
  IN [s EXCEPT !.nodes = [i \in 1..Len(order) |->
                            [s.nodes[order[i]] EXCEPT !.prev = R(@),
                                                      !.next = R(@)]],
               !.cache = [i \in 1..Len(s.cache) |->
                            [key |-> s.cache[i].key,
                             node |-> R(s.cache[i].node)]],
               !.head = R(@),
               !.tail = R(@)]

\* --------------------------------------------------------------- LRUCache
\* a ?? b
Coalesce(a, b) == IF a = Undefined THEN b ELSE a

\* a + b on numbers: Infinity plus a finite number is Infinity
Plus(a, b) == IF a >= Infinity \/ b >= Infinity THEN Infinity ELSE a + b

\* options.sizeCalculation: the default () => 1, or the value's own length
sizeCalculation(f, value, key) == IF f = "one" THEN 1 ELSE value

\* mutant of CaughtByTry: no try around the callback
Uncaught(thrown) == thrown

\* what the try { ... } catch of disposeItem lets out of an exception
\* thrown inside it: nothing
CaughtByTry(thrown) == FALSE

\* does a reader inside the callback find the key in the index / the list
KeyInIndex(s, key) == MapHas(s.cache, key)
KeyInList(s, key) ==
  \E i \in 1..Len(ListNodes(s)) : s.nodes[ListNodes(s)[i]].key = key

\* what the callback itself does to the cache it was configured on:
\*   "reinsert": (value, key, reason) =>
\*                 { if (reason === DELETED) cache.set(key, value) }
\*   "redelete": (value, key, reason) =>
\*                 { if (reason === OVERWRITTEN) cache.delete(key) }
\* any other callback leaves the cache alone
RECURSIVE Invoke(_, _)
Callback(s, key, value, reason) ==
  CASE s.options.dispose = "reinsert" /\ reason = DELETED ->
         Invoke(s, [name |-> "set", key |-> key, value |-> value,
                    opts |-> [ttl |-> Undefined, size |-> Undefined]])
    [] s.options.dispose = "redelete" /\ reason = OVERWRITTEN ->
         Invoke(s, [name |-> "delete", key |-> key])
    [] OTHER -> s

disposeItem(s, key, value, reason) ==
  IF s.options.dispose = NoCallback
  THEN s
  ELSE LET called == Callback(
                       [s EXCEPT !.disposeLog =
                          Append(@, [key |-> key, value |-> value,
                                     reason |-> reason,
                                     inIndex |-> KeyInIndex(s, key),
                                     inList |-> KeyInList(s, key)])],
                       key, value, reason)
           \* a rejected promise is handled by .catch (asyncDispose) or
           \* dropped (otherwise); a synchronous throw lands in the try
           thrown == IF s.options.asyncDispose
                     THEN s.options.dispose = "throw"
                     ELSE s.options.dispose = "throw"
       IN [called EXCEPT !.exc = CaughtByTry(thrown)]

\* the entry the index holds for key, as the removal record of the call
Removal(s, key, via) ==
  LET n == s.nodes[MapGet(s.cache, key)]
  IN [key |-> key, value |-> n.value, size |-> n.size, expiry |-> n.expiry,
      via |-> via]

\* mutant of delete: totalSize is not reduced
deleteKeepTotal(s, key, reason) ==
  LET node == MapGet(s.cache, key)
  IN IF node = Null
     THEN [s EXCEPT !.ret = 0]
     ELSE LET n == s.nodes[node]
              s1 == disposeItem(s, n.key, n.value, reason)
              s2 == [s1 EXCEPT !.cache = MapDelete(@, key),
                               !.removed = Append(@, Removal(s, key, "delete"))]
              s3 == remove(s2, node)
          IN IF s1.exc THEN s1 ELSE [s3 EXCEPT !.ret = 1]

\* mutant of delete: the entry is removed but the result is false
deleteReportsFalse(s, key, reason) ==
  LET node == MapGet(s.cache, key)
  IN IF node = Null
     THEN [s EXCEPT !.ret = 0]
     ELSE LET n == s.nodes[node]
              s1 == disposeItem(s, n.key, n.value, reason)
              s2 == [s1 EXCEPT !.cache = MapDelete(@, key),
                               !.removed = Append(@, Removal(s, key, "delete"))]
              s3 == remove(s2, node)
          IN IF s1.exc
             THEN s1
             ELSE [s3 EXCEPT !.totalSize = @ - n.size, !.ret = 0]

delete(s, key, reason) ==
  LET node == MapGet(s.cache, key)
  IN IF node = Null
     THEN [s EXCEPT !.ret = 0]
     ELSE LET n == s.nodes[node]
              s1 == disposeItem(s, n.key, n.value, reason)
              s2 == [s1 EXCEPT !.cache = MapDelete(@, key),
                               !.removed = Append(@, Removal(s, key, "delete"))]
              s3 == remove(s2, node)
          IN IF s1.exc
             THEN s1
             ELSE [s3 EXCEPT !.totalSize = @ - n.size, !.ret = 1]

\* first loop of prune, over the live Map iterator at position i
RECURSIVE pruneExpired(_, _, _)
pruneExpired(s, i, pruned) ==
  IF s.exc \/ i > Len(s.cache)
  THEN [s EXCEPT !.ret = pruned]
  ELSE LET n == s.nodes[s.cache[i].node]
       IN IF n.expiry # Null /\ n.expiry <= s.now
          THEN pruneExpired(delete(s, s.cache[i].key, EXPIRED), i, pruned + 1)
          ELSE pruneExpired(s, i + 1, pruned)

\* mutants of OverCapacity: the count compared one too low, the size bound
\* left out, the last entry spared
OverCapacityOffByOne(s) ==
  \/ s.options.max < Infinity /\ Len(s.cache) - 1 > s.options.max
  \/ s.options.maxSize < Infinity /\ s.totalSize > s.options.maxSize

OverCapacityCountOnly(s) ==
  s.options.max < Infinity /\ Len(s.cache) > s.options.max

OverCapacitySpareLast(s) ==
  /\ Len(s.cache) > 1
  /\ \/ s.options.max < Infinity /\ Len(s.cache) > s.options.max
     \/ s.options.maxSize < Infinity /\ s.totalSize > s.options.maxSize

OverCapacity(s) ==
  \/ s.options.max < Infinity /\ Len(s.cache) > s.options.max
  \/ s.options.maxSize < Infinity /\ s.totalSize > s.options.maxSize

\* second loop of prune
RECURSIVE pruneCapacity(_, _)
pruneCapacity(s, pruned) ==
  IF s.exc
  THEN s
  ELSE IF OverCapacity(s) /\ s.tail # Null
       THEN LET n == s.nodes[s.tail]
                s1 == removeTail(s)
                s2 == IF MapHas(s1.cache, n.key)
                      THEN [s1 EXCEPT !.cache = MapDelete(@, n.key),
                                      !.removed = Append(@,
                                          Removal(s1, n.key, "removeTail"))]
                      ELSE s1
                s3 == disposeItem(s2, n.key, n.value, EVICTED)
            IN IF s3.exc
               THEN s3
               ELSE pruneCapacity([s3 EXCEPT !.totalSize = @ - n.size],
                                  pruned + 1)
       ELSE [s EXCEPT !.ret = pruned]

\* mutant of prune: the entries removed for expiry are not counted
pruneCountsEvictionsOnly(s) ==
  LET e == pruneExpired(s, 1, 0)
  IN pruneCapacity(e, 0)

prune(s) ==
  LET e == pruneExpired(s, 1, 0)
  IN pruneCapacity(e, e.ret)

\* mutant of get: the miss on an expired entry is not counted
getExpiredUncounted(s, key) ==
  LET node == MapGet(s.cache, key)
  IN IF node = Null
     THEN [s EXCEPT !.misses = @ + 1, !.ret = Undefined]
     ELSE LET n == s.nodes[node]
          IN IF n.expiry # Null /\ n.expiry < s.now
             THEN IF s.options.allowStale
                  THEN [s EXCEPT !.hits = @ + 1, !.ret = n.value]
                  ELSE LET d == delete(s, key, EXPIRED)
                       IN IF d.exc
                          THEN d
                          ELSE [d EXCEPT !.ret = Undefined]
             ELSE [moveToFront(s, node) EXCEPT !.hits = @ + 1,
                                               !.ret = n.value]

get(s, key) ==
  LET node == MapGet(s.cache, key)
  IN IF node = Null
     THEN [s EXCEPT !.misses = @ + 1, !.ret = Undefined]
     ELSE LET n == s.nodes[node]
          IN IF n.expiry # Null /\ n.expiry < s.now
             THEN IF s.options.allowStale
                  THEN [s EXCEPT !.hits = @ + 1, !.ret = n.value]
                  ELSE LET d == delete(s, key, EXPIRED)
                       IN IF d.exc
                          THEN d
                          ELSE [d EXCEPT !.misses = @ + 1, !.ret = Undefined]
             ELSE [moveToFront(s, node) EXCEPT !.hits = @ + 1,
                                               !.ret = n.value]

\* mutants of has: allowStale is not looked at; an expired entry is removed
\* the way get removes it
hasIgnoringStale(s, key) ==
  LET node == MapGet(s.cache, key)
  IN IF node = Null
     THEN [s EXCEPT !.ret = 0]
     ELSE IF /\ s.nodes[node].expiry # Null
             /\ s.nodes[node].expiry < s.now
          THEN [s EXCEPT !.ret = 0]
          ELSE [s EXCEPT !.ret = 1]

hasRemovingExpired(s, key) ==
  LET node == MapGet(s.cache, key)
  IN IF node = Null
     THEN [s EXCEPT !.ret = 0]
     ELSE IF /\ s.nodes[node].expiry # Null
             /\ s.nodes[node].expiry < s.now
             /\ ~s.options.allowStale
          THEN [delete(s, key, EXPIRED) EXCEPT !.ret = 0]
          ELSE [s EXCEPT !.ret = 1]

\* the boolean result is ret 1 (true) or 0 (false)
has(s, key) ==
  LET node == MapGet(s.cache, key)
  IN IF node = Null
     THEN [s EXCEPT !.ret = 0]
     ELSE IF /\ s.nodes[node].expiry # Null
             /\ s.nodes[node].expiry < s.now
             /\ ~s.options.allowStale
          THEN [s EXCEPT !.ret = 0]
          ELSE [s EXCEPT !.ret = 1]

peek(s, key) ==
  LET node == MapGet(s.cache, key)
  IN IF node = Null
     THEN [s EXCEPT !.ret = Undefined]
     ELSE IF /\ s.nodes[node].expiry # Null
             /\ s.nodes[node].expiry < s.now
             /\ ~s.options.allowStale
          THEN [s EXCEPT !.ret = Undefined]
          ELSE [s EXCEPT !.ret = s.nodes[node].value]

\* mutant of set: the overwritten entry is disposed with the new value
setDisposeNewValue(s, key, value, opts) ==
  LET existing == MapGet(s.cache, key)
      d == IF existing # Null /\ ~s.options.noDisposeOnSet
           THEN disposeItem(s, s.nodes[existing].key, value, OVERWRITTEN)
           ELSE s
      s1 == IF existing # Null
            THEN [remove(d, existing) EXCEPT
                    !.totalSize = @ - s.nodes[existing].size]
            ELSE d
      ttl == Coalesce(opts.ttl, s.options.ttl)
      expiry == IF ttl > 0 THEN Plus(s.now, ttl) ELSE Null
      size == Coalesce(opts.size,
                       sizeCalculation(s.options.sizeCalculation, value, key))
      node == NewNodeId(s1)
      s2 == [s1 EXCEPT !.nodes =
               (node :> [Node(key, value) EXCEPT !.size = size,
                                                 !.expiry = expiry]) @@ @]
      s3 == addToFront(s2, node)
      s4 == [s3 EXCEPT !.removed = IF MapHas(s3.cache, key)
                                   THEN Append(@, Removal(s3, key, "overwrite"))
                                   ELSE @,
                       !.cache = MapSet(@, key, node),
                       !.totalSize = @ + size]
  IN IF d.exc THEN d ELSE [prune(s4) EXCEPT !.ret = 0]

set(s, key, value, opts) ==
  LET existing == MapGet(s.cache, key)
      d == IF existing # Null /\ ~s.options.noDisposeOnSet
           THEN disposeItem(s, s.nodes[existing].key, s.nodes[existing].value,
                            OVERWRITTEN)
           ELSE s
      s1 == IF existing # Null
            THEN [remove(d, existing) EXCEPT
                    !.totalSize = @ - s.nodes[existing].size]
            ELSE d
      ttl == Coalesce(opts.ttl, s.options.ttl)
      expiry == IF ttl > 0 THEN Plus(s.now, ttl) ELSE Null
      size == Coalesce(opts.size,
                       sizeCalculation(s.options.sizeCalculation, value, key))
      node == NewNodeId(s1)
      s2 == [s1 EXCEPT !.nodes =
               (node :> [Node(key, value) EXCEPT !.size = size,
                                                 !.expiry = expiry]) @@ @]
      s3 == addToFront(s2, node)
      s4 == [s3 EXCEPT !.removed = IF MapHas(s3.cache, key)
                                   THEN Append(@, Removal(s3, key, "overwrite"))
                                   ELSE @,
                       !.cache = MapSet(@, key, node),
                       !.totalSize = @ + size]
  IN IF d.exc THEN d ELSE [prune(s4) EXCEPT !.ret = 0]

\* the dispose loop of clear, over the live Map iterator at position i
RECURSIVE clearDispose(_, _)
clearDispose(s, i) ==
  IF s.exc \/ i > Len(s.cache)
  THEN s
  ELSE clearDispose(disposeItem(s, s.cache[i].key,
                                s.nodes[s.cache[i].node].value, CACHE_CLEAR),
                    i + 1)

\* mutant of clear: the entries are dropped without a dispose call
clearWithoutDispose(s) ==
  LET c == [s EXCEPT !.removed = @ \o [i \in 1..Len(s.cache) |->
                                         Removal(s, s.cache[i].key, "clear")],
                     !.cache = <<>>,
                     !.totalSize = 0]
  IN [listClear(c) EXCEPT !.ret = 0]

clear(s) ==
  LET d == IF s.options.dispose # NoCallback THEN clearDispose(s, 1) ELSE s
      c == [d EXCEPT !.removed = @ \o [i \in 1..Len(d.cache) |->
                                         Removal(d, d.cache[i].key, "clear")],
                     !.cache = <<>>,
                     !.totalSize = 0]
  IN IF d.exc THEN d ELSE [listClear(c) EXCEPT !.ret = 0]

\* the loop of deserialize at position i of data; between two set calls the
\* nodes that the finished call dropped are gone
RECURSIVE deserializeFrom(_, _, _)
deserializeFrom(s, data, i) ==
  IF s.exc \/ i > Len(data)
  THEN s
  ELSE deserializeFrom(
         Normalize(set(s, data[i].key, data[i].value, data[i].options)),
         data, i + 1)

deserialize(s, data) ==
  LET c == clear(s)
  IN IF c.exc THEN c ELSE [deserializeFrom(c, data, 1) EXCEPT !.ret = 0]

\* a call of a method of the cache, from outside or from a dispose callback
Invoke(s, call) ==
  CASE call.name = "set" -> set(s, call.key, call.value, call.opts)
    [] call.name = "get" -> get(s, call.key)
    [] call.name = "delete" -> delete(s, call.key, DELETED)
    [] call.name = "clear" -> clear(s)
    [] call.name = "prune" -> prune(s)
    [] call.name = "deserialize" -> deserialize(s, call.data)

\* mutants of serializeFrom: options.ttl is the expiry timestamp instead of
\* the remaining time; expired entries are skipped whatever allowStale is
RECURSIVE serializeFromExpiryAsTtl(_, _, _)
serializeFromExpiryAsTtl(s, i, result) ==
  IF i > Len(s.cache)
  THEN result
  ELSE LET key == s.cache[i].key
           node == s.nodes[s.cache[i].node]
           ttl == IF node.expiry # Null THEN node.expiry - s.now ELSE Undefined
           opts == [size |-> node.size,
                    ttl |-> IF node.expiry # Null /\ ttl > 0 THEN node.expiry
                                                             ELSE Undefined]
       IN IF node.expiry # Null /\ ~(ttl > 0) /\ ~s.options.allowStale
          THEN serializeFromExpiryAsTtl(s, i + 1, result)
          ELSE serializeFromExpiryAsTtl(s, i + 1,
                 Append(result, [key |-> key, value |-> node.value,
                                 options |-> opts]))

RECURSIVE serializeFromSkipStale(_, _, _)
serializeFromSkipStale(s, i, result) ==
  IF i > Len(s.cache)
  THEN result
  ELSE LET key == s.cache[i].key
           node == s.nodes[s.cache[i].node]
           ttl == IF node.expiry # Null THEN node.expiry - s.now ELSE Undefined
           opts == [size |-> node.size,
                    ttl |-> IF node.expiry # Null /\ ttl > 0 THEN ttl
                                                             ELSE Undefined]
       IN IF node.expiry # Null /\ ~(ttl > 0)
          THEN serializeFromSkipStale(s, i + 1, result)
          ELSE serializeFromSkipStale(s, i + 1,
                 Append(result, [key |-> key, value |-> node.value,
                                 options |-> opts]))

\* the loop of serialize over the Map iterator at position i; result is the
\* array built so far
RECURSIVE serializeFrom(_, _, _)
serializeFrom(s, i, result) ==
  IF i > Len(s.cache)
  THEN result
  ELSE LET key == s.cache[i].key
           node == s.nodes[s.cache[i].node]
           ttl == IF node.expiry # Null THEN node.expiry - s.now ELSE Undefined
           opts == [size |-> node.size,
                    ttl |-> IF node.expiry # Null /\ ttl > 0 THEN ttl
                                                             ELSE Undefined]
       IN IF node.expiry # Null /\ ~(ttl > 0) /\ ~s.options.allowStale
          THEN serializeFrom(s, i + 1, result)
          ELSE serializeFrom(s, i + 1,
                             Append(result, [key |-> key, value |-> node.value,
                                             options |-> opts]))

serialize(s) == [s EXCEPT !.data = serializeFrom(s, 1, <<>>)]

\* get size()
size(s) == Len(s.cache)

\* ----------------------------------------------------------- state machine
\* options.dispose: no callback, or one that returns, throws, or returns a
\* promise that rejects
Bounded == [max |-> 2, maxSize |-> 3, sizeCalculation |-> "byValue"]
CountBounded == [max |-> 2, maxSize |-> Infinity, sizeCalculation |-> "one"]
SizeBounded == [max |-> Infinity, maxSize |-> 3, sizeCalculation |-> "byValue"]

Disposals ==
  {[dispose |-> NoCallback, noDisposeOnSet |-> FALSE, asyncDispose |-> FALSE],
   [dispose |-> "return", noDisposeOnSet |-> FALSE, asyncDispose |-> FALSE],
   [dispose |-> "throw", noDisposeOnSet |-> FALSE, asyncDispose |-> FALSE],
   [dispose |-> "throw", noDisposeOnSet |-> TRUE, asyncDispose |-> TRUE],
   [dispose |-> "reject", noDisposeOnSet |-> FALSE, asyncDispose |-> TRUE]}

\* the constructor: options with their defaults filled in
Options(c, d, ttl, allowStale) ==
  [max |-> c.max, maxSize |-> c.maxSize, ttl |-> ttl,
   sizeCalculation |-> c.sizeCalculation, dispose |-> d.dispose,
   noDisposeOnSet |-> d.noDisposeOnSet, allowStale |-> allowStale,
   asyncDispose |-> d.asyncDispose]

Returning ==
  [dispose |-> "return", noDisposeOnSet |-> FALSE, asyncDispose |-> FALSE]

\* count- and size-bounded caches without a default ttl, one for every
\* callback; a count-bounded and a size-bounded cache with a default ttl
\* that hand out stale entries
Configs ==
  {Options(Bounded, d, 0, FALSE) : d \in Disposals}
  \cup
  {Options(c, Returning, 1, TRUE) : c \in {CountBounded, SizeBounded}}

\* new LRUCache(options) with the configuration of this cache, at time t
Fresh(t) ==
  [cache |-> <<>>, nodes |-> <<>>, head |-> Null, tail |-> Null,
   length |-> 0, totalSize |-> 0, hits |-> 0, misses |-> 0,
   options |-> options, now |-> t, disposeLog |-> <<>>, removed |-> <<>>,
   exc |-> FALSE, ret |-> 0, data |-> <<>>]

\* one [K, V, ItemOptions] tuple of serialized data
Tuple(key, value, sz, ttl) ==
  [key |-> key, value |-> value, options |-> [size |-> sz, ttl |-> ttl]]

\* the data handed to deserialize
Datasets ==
  {<<>>,
   <<Tuple("a", 1, 1, 2), Tuple("b", 2, 2, 1)>>,
   <<Tuple("a", 1, 1, 1), Tuple("b", 1, 1, Undefined),
     Tuple("c", 2, 1, Undefined)>>,
   <<Tuple("b", 2, 2, Undefined), Tuple("b", 1, 1, 1)>>}

\* the cache object at the start of a call
Cur ==
  [cache |-> cache, nodes |-> nodes, head |-> head, tail |-> tail,
   length |-> length, totalSize |-> totalSize, hits |-> hits,
   misses |-> misses, options |-> options, now |-> now,
   disposeLog |-> <<>>, removed |-> <<>>, exc |-> FALSE, ret |-> 0,
   data |-> <<>>]

\* the cache object a call leaves behind
Commit(r) ==
  \E n \in {Normalize(r)} :
     /\ cache' = n.cache
     /\ nodes' = n.nodes
     /\ head' = n.head
     /\ tail' = n.tail
     /\ length' = n.length
     /\ totalSize' = n.totalSize
     /\ hits' = n.hits
     /\ misses' = n.misses
     /\ disposeLog' = n.disposeLog
     /\ removed' = n.removed
     /\ UNCHANGED <<options, now>>

\* the call made last: its arguments (value and size of the entry for set),
\* its result (ret, or data for the array serialize returns) and whether it
\* threw
Op(name, key, sz, r) ==
  [name |-> name, key |-> key, value |-> 0, size |-> sz, ret |-> r.ret,
   data |-> r.data, threw |-> r.exc]

NoOp ==
  [name |-> "idle", key |-> NoKey, value |-> 0, size |-> 0, ret |-> 0,
   data |-> <<>>, threw |-> FALSE]

\* no call is in progress and the last one has been observed
Idle == lastOp = NoOp

\* touch order with key moved to the front
Front(q, key) == <<key>> \o SelectSeq(q, LAMBDA k : k # key)
\* touch order of the keys still held
Held(q, r) == SelectSeq(q, LAMBDA k : MapHas(r.cache, k))

\* touch order after the set calls of deserialize from position i of data
RECURSIVE TouchedFrom(_, _, _, _)
TouchedFrom(s, q, data, i) ==
  IF s.exc \/ i > Len(data)
  THEN q
  ELSE LET s1 == Normalize(Invoke(s, [name |-> "set", key |-> data[i].key,
                                        value |-> data[i].value,
                                        opts |-> data[i].options]))
       IN TouchedFrom(s1, Held(Front(q, data[i].key), s1), data, i + 1)

\* the entry get(key) finds is held and get does not find it expired
FreshHit(s, key) ==
  /\ MapHas(s.cache, key)
  /\ LET n == s.nodes[MapGet(s.cache, key)]
     IN ~(n.expiry # Null /\ n.expiry < s.now)

Init ==
  /\ cache = <<>>
  /\ nodes = <<>>
  /\ head = Null
  /\ tail = Null
  /\ length = 0
  /\ totalSize = 0
  /\ hits = 0
  /\ misses = 0
  /\ options \in Configs
  /\ now = 0
  /\ disposeLog = <<>>
  /\ removed = <<>>
  /\ recency = <<>>
  /\ lastOp = NoOp

Set ==
  /\ Idle
  /\ \E key \in Keys, value \in Values, ttl \in TtlOpts, sz \in SizeOpts :
       \E r \in {Invoke(Cur, [name |-> "set", key |-> key, value |-> value,
                            opts |-> [ttl |-> ttl, size |-> sz]])} :
          /\ Commit(r)
          /\ recency' = Held(Front(recency, key), r)
          /\ lastOp' = [Op("set", key,
                           Coalesce(sz,
                                    sizeCalculation(options.sizeCalculation,
                                                    value, key)), r)
                          EXCEPT !.value = value]

Get ==
  /\ Idle
  /\ hits + misses < MaxGets
  /\ \E key \in Keys :
       \E r \in {Invoke(Cur, [name |-> "get", key |-> key])} :
          /\ Commit(r)
          /\ recency' = Held(IF FreshHit(Cur, key) THEN Front(recency, key)
                                                   ELSE recency, r)
          /\ lastOp' = Op("get", key, 0, r)

Has ==
  /\ Idle
  /\ \E key \in Keys :
       \E r \in {has(Cur, key)} :
          /\ Commit(r)
          /\ recency' = Held(recency, r)
          /\ lastOp' = Op("has", key, 0, r)

Peek ==
  /\ Idle
  /\ \E key \in Keys :
       \E r \in {peek(Cur, key)} :
          /\ Commit(r)
          /\ recency' = Held(recency, r)
          /\ lastOp' = Op("peek", key, 0, r)

Delete ==
  /\ Idle
  /\ \E key \in Keys :
       \E r \in {Invoke(Cur, [name |-> "delete", key |-> key])} :
          /\ Commit(r)
          /\ recency' = Held(recency, r)
          /\ lastOp' = Op("delete", key, 0, r)

Clear ==
  /\ Idle
  /\ \E r \in {Invoke(Cur, [name |-> "clear"])} :
       /\ Commit(r)
       /\ recency' = Held(recency, r)
       /\ lastOp' = Op("clear", NoKey, 0, r)

Deserialize ==
  /\ Idle
  /\ \E data \in Datasets :
       \E r \in {Invoke(Cur, [name |-> "deserialize", data |-> data])} :
          /\ Commit(r)
          /\ recency' = Held(TouchedFrom(Invoke(Cur, [name |-> "clear"]),
                                          <<>>, data, 1), r)
          /\ lastOp' = Op("deserialize", NoKey, 0, r)

Serialize ==
  /\ Idle
  /\ \E r \in {serialize(Cur)} :
       /\ Commit(r)
       /\ recency' = Held(recency, r)
       /\ lastOp' = Op("serialize", NoKey, 0, r)

\* a direct call, or the interval timer of startPruneTimer
Prune ==
  /\ Idle
  /\ \E r \in {Invoke(Cur, [name |-> "prune"])} :
       /\ Commit(r)
       /\ recency' = Held(recency, r)
       /\ lastOp' = Op("prune", NoKey, 0, r)

\* the caller has looked at what the call did; the next call starts afresh
Return ==
  /\ ~Idle
  /\ lastOp' = NoOp
  /\ disposeLog' = <<>>
  /\ removed' = <<>>
  /\ UNCHANGED <<cache, nodes, head, tail, length, totalSize, hits, misses,
                 options, now, recency>>

\* time passes between calls
Tick ==
  /\ Idle
  /\ now < MaxTime
  /\ now' = now + 1
  /\ UNCHANGED <<cache, nodes, head, tail, length, totalSize, hits, misses,
                 options, disposeLog, removed, recency, lastOp>>

Next ==
  \/ Set
  \/ Get
  \/ Has
  \/ Peek
  \/ Delete
  \/ Clear
  \/ Prune
  \/ Deserialize
  \/ Serialize
  \/ Return
  \/ Tick

Spec == Init /\ [][Next]_vars

\* ------------------------------------------- the list on its own
\* a DoublyLinkedList driven directly, as linked-list.spec.ts does: the
\* nodes a test has created stay referenced by the test after removal
ListInit == Init /\ options = Options(Bounded, Returning, 0, FALSE)

\* the list a call leaves behind; ret is the node the call was about
ListCommit(r, name, node) ==
  /\ nodes' = r.nodes
  /\ head' = r.head
  /\ tail' = r.tail
  /\ length' = r.length
  /\ lastOp' = [NoOp EXCEPT !.name = name, !.ret = node]
  /\ UNCHANGED <<cache, totalSize, hits, misses, options, now, disposeLog,
                 removed, recency>>

\* list.addToFront(new Node(key, value))
ListAddNew ==
  /\ DOMAIN nodes # NodeIds
  /\ \E key \in Keys :
       \E node \in {NewNodeId(Cur)} :
          ListCommit(addToFront([Cur EXCEPT !.nodes =
                                   (node :> Node(key, 1)) @@ @], node),
                     "addToFront", node)

\* list.addToFront(node) of a node removed before
ListAddRemoved ==
  \E node \in DOMAIN nodes \ SeqSet(ListNodes(Cur)) :
     ListCommit(addToFront(Cur, node), "addToFront", node)

ListRemove ==
  \E node \in SeqSet(ListNodes(Cur)) :
     ListCommit(remove(Cur, node), "remove", node)

ListMoveToFront ==
  \E node \in SeqSet(ListNodes(Cur)) :
     ListCommit(moveToFront(Cur, node), "moveToFront", node)

ListRemoveTail ==
  ListCommit(removeTail(Cur), "removeTail", tail)

ListNext ==
  \/ ListAddNew
  \/ ListAddRemoved
  \/ ListRemove
  \/ ListMoveToFront
  \/ ListRemoveTail

ListSpec == ListInit /\ [][ListNext]_vars

\* ------------------------------------------- re-entrant dispose callbacks
\* caches whose dispose callback calls set or delete on the cache itself
Reentrant ==
  {[dispose |-> "reinsert", noDisposeOnSet |-> FALSE, asyncDispose |-> FALSE],
   [dispose |-> "redelete", noDisposeOnSet |-> FALSE, asyncDispose |-> FALSE]}

InitReentrant ==
  /\ cache = <<>>
  /\ nodes = <<>>
  /\ head = Null
  /\ tail = Null
  /\ length = 0
  /\ totalSize = 0
  /\ hits = 0
  /\ misses = 0
  /\ options \in {Options(Bounded, d, 0, FALSE) : d \in Reentrant}
  /\ now = 0
  /\ disposeLog = <<>>
  /\ removed = <<>>
  /\ recency = <<>>
  /\ lastOp = NoOp

\* length and totalSize are no further than MaxDrift from what the index
\* holds
WithinDrift ==
  /\ length - Len(cache) \in -MaxDrift..MaxDrift
  /\ totalSize - SumSizes(Cur, 1) \in -MaxDrift..MaxDrift

NextReentrant ==
  \/ WithinDrift /\ Set
  \/ WithinDrift /\ Delete
  \/ WithinDrift /\ Clear
  \/ WithinDrift /\ Prune
  \/ Return
  \/ Tick

SpecReentrant == InitReentrant /\ [][NextReentrant]_vars

\* ------------------------------------------- deserialize of malformed data
\* persisted data with tuples that are not well formed: a negative size, a
\* ttl that is not finite
MalformedDatasets ==
  {<<Tuple("a", 1, -2, Undefined), Tuple("b", 2, 2, Undefined)>>,
   <<Tuple("a", 1, 1, Infinity), Tuple("b", 1, 1, 1)>>,
   <<Tuple("b", 2, 2, 1), Tuple("c", 2, -2, Infinity)>>}

DeserializeMalformed ==
  /\ Idle
  /\ \E data \in MalformedDatasets :
       \E r \in {Invoke(Cur, [name |-> "deserialize", data |-> data])} :
          /\ Commit(r)
          /\ recency' = Held(TouchedFrom(Invoke(Cur, [name |-> "clear"]),
                                          <<>>, data, 1), r)
          /\ lastOp' = [Op("deserialize", NoKey, 0, r) EXCEPT !.data = data]

NextMalformed ==
  \/ DeserializeMalformed
  \/ Peek
  \/ Delete
  \/ Prune
  \/ Return
  \/ Tick

SpecMalformed == Init /\ [][NextMalformed]_vars

\* ------------------------------------------------------------- properties
ListKeys(s) == [i \in 1..Len(ListNodes(s)) |-> s.nodes[ListNodes(s)[i]].key]

Position(q, k) == CHOOSE i \in 1..Len(q) : q[i] = k

ViaKeys(rem, via) == {rem[i].key : i \in {j \in 1..Len(rem) : rem[j].via = via}}

\* C1: with a finite max, the number of held entries never exceeds max once
\* a call has returned
C1_SizeWithinMax ==
  options.max < Infinity => size(Cur) <= options.max

\* a set on a full count-bounded cache has evicted an entry
C1_Witness ==
  /\ lastOp.name = "set"
  /\ options.max < Infinity
  /\ size(Cur) = options.max
  /\ ViaKeys(removed, "removeTail") # {}

\* the touch order a call starts from: set touches its key before it prunes
C2_Base ==
  IF lastOp'.name = "set" THEN Front(recency, lastOp'.key) ELSE recency

C3_TotalSizeWithinMaxSize ==
  lastOp.name = "set" /\ options.maxSize < Infinity
    => totalSize <= options.maxSize

\* a set on a size-bounded cache has evicted an entry and kept its own
C3_Witness ==
  /\ lastOp.name = "set"
  /\ options.maxSize < Infinity
  /\ ViaKeys(removed, "removeTail") # {}
  /\ MapHas(cache, lastOp.key)

\* set has inserted an entry whose own size exceeds maxSize
C4_Oversized ==
  /\ lastOp.name = "set"
  /\ options.maxSize < Infinity
  /\ lastOp.size > options.maxSize

\* C4 as claimed: the oversized entry remains alone in the cache
C4_OversizedStaysAlone ==
  C4_Oversized => MapKeys(cache) = {lastOp.key}

\* C4 as amended: the capacity phase evicts the older entries and then the
\* oversized entry itself, leaving the cache empty
C4_OversizedEvictsAll ==
  C4_Oversized =>
    /\ cache = <<>>
    /\ totalSize = 0
    /\ removed # <<>>
    /\ removed[Len(removed)].key = lastOp.key
    /\ removed[Len(removed)].via = "removeTail"

\* an oversized set that found older entries in the cache
C4_Witness ==
  /\ C4_Oversized
  /\ Cardinality(ViaKeys(removed, "removeTail")) >= 2

\* C5: size, the index cardinality and the list length are equal, the index
\* and the list hold the same keys, and the index maps each key to the node
\* of that key in the list
C5_IndexListAgree ==
  /\ size(Cur) = Len(cache)
  /\ Len(cache) = length
  /\ length = Len(ListNodes(Cur))
  /\ MapKeys(cache) = SeqSet(ListKeys(Cur))
  /\ \A i \in 1..Len(cache) :
        /\ cache[i].node \in SeqSet(ListNodes(Cur))
        /\ nodes[cache[i].node].key = cache[i].key

\* a delete took one of several entries out
C5_Witness ==
  /\ lastOp.name = "delete"
  /\ lastOp.ret = 1
  /\ Len(cache) = 2

\* C6: totalSize equals the sum of the sizes of the held entries
C6_TotalSizeIsSum ==
  totalSize = SumSizes(Cur, 1)

\* a set has overwritten an entry with one of another size, others held
C6_Witness ==
  /\ lastOp.name = "set"
  /\ ViaKeys(removed, "overwrite") # {}
  /\ Len(cache) = 2
  /\ \E i \in 1..Len(removed) :
        removed[i].via = "overwrite" /\ removed[i].value # lastOp.size
  /\ options.sizeCalculation = "byValue"

\* C7: with allowStale off, an entry with expiry <= now reads as absent
\* through get, has and peek
C7_ExpiredReadsAbsent ==
  ~options.allowStale =>
    \A i \in 1..Len(cache) :
       LET n == nodes[cache[i].node]
       IN n.expiry # Null /\ n.expiry <= now =>
            /\ get(Cur, cache[i].key).ret = Undefined
            /\ has(Cur, cache[i].key).ret = 0
            /\ peek(Cur, cache[i].key).ret = Undefined

\* the reason a removal is to be disposed with
Cause(r) ==
  CASE r.via = "clear" -> CACHE_CLEAR
    [] r.via = "overwrite" -> OVERWRITTEN
    [] r.via = "removeTail" -> EVICTED
    [] r.via = "delete" -> IF lastOp.name = "delete" THEN DELETED ELSE EXPIRED

\* the dispose calls rems asks for: one per removal, in order, with its cause
Expected(rems) ==
  [i \in 1..Len(rems) |->
     [key |-> rems[i].key, value |-> rems[i].value, reason |-> Cause(rems[i])]]

\* the dispose calls made
Disposed ==
  [i \in 1..Len(disposeLog) |->
     [key |-> disposeLog[i].key, value |-> disposeLog[i].value,
      reason |-> disposeLog[i].reason]]

\* a removal for expiry is of an entry that has an expiry at or before now
ExpiredRemovals ==
  \A i \in 1..Len(removed) :
     removed[i].via = "delete" /\ lastOp.name # "delete" =>
       removed[i].expiry # Null /\ removed[i].expiry <= now

\* C8 as claimed: dispose is called exactly once per removed entry, with the
\* reason of the removal, overwrites included
C8_DisposedOncePerRemoval ==
  options.dispose # NoCallback =>
    Disposed = Expected(removed) /\ ExpiredRemovals

\* C8 as amended: as claimed, but an entry overwritten under noDisposeOnSet
\* is removed without a dispose call
C8_DisposedOnceUnlessNoDisposeOnSet ==
  options.dispose # NoCallback =>
    /\ Disposed =
         Expected(SelectSeq(removed,
                             LAMBDA r : ~(options.noDisposeOnSet
                                          /\ r.via = "overwrite")))
    /\ ExpiredRemovals

\* one call removed an expired entry and evicted another
C8_Witness ==
  /\ options.dispose # NoCallback
  /\ ViaKeys(removed, "delete") # {}
  /\ ViaKeys(removed, "removeTail") # {}
  /\ Len(disposeLog) >= 2

\* C9: when dispose is called for a removal by delete, expiry, eviction or
\* clear, the entry is in neither the index nor the list
C9_DetachedBeforeDispose ==
  \A i \in 1..Len(disposeLog) :
     disposeLog[i].reason \in {DELETED, EXPIRED, EVICTED, CACHE_CLEAR} =>
       ~disposeLog[i].inIndex /\ ~disposeLog[i].inList

\* C10: a dispose callback that throws or rejects never fails the call; the
\* removals it was called for are complete and the index, the list and
\* totalSize agree
C10_DisposeFailureContained ==
  options.dispose \in {"throw", "reject"} =>
    /\ ~lastOp.threw
    /\ Len(removed) >= Len(disposeLog)
    /\ \A i \in 1..Len(disposeLog) :
          /\ \E j \in 1..Len(removed) : removed[j].key = disposeLog[i].key
          /\ lastOp.name \in {"delete", "get", "prune", "clear"} =>
               /\ ~MapHas(cache, disposeLog[i].key)
               /\ ~KeyInList(Cur, disposeLog[i].key)
    /\ C5_IndexListAgree
    /\ C6_TotalSizeIsSum

\* a throwing callback was called for an eviction within set
C10_Witness ==
  /\ options.dispose = "throw"
  /\ lastOp.name = "set"
  /\ \E i \in 1..Len(disposeLog) : disposeLog[i].reason = EVICTED
  /\ cache # <<>>

\* set is called on a key the index holds
C11_Overwrite ==
  lastOp'.name = "set" /\ MapHas(cache, lastOp'.key)

\* the size of the removals of a call other than the overwritten entry
RECURSIVE C11_OtherRemoved(_, _)
C11_OtherRemoved(rems, i) ==
  IF i > Len(rems)
  THEN 0
  ELSE (IF rems[i].via = "overwrite" THEN 0 ELSE rems[i].size)
       + C11_OtherRemoved(rems, i + 1)

\* the dispose calls of the last call made for an overwrite
C11_OverwriteDisposals ==
  SelectSeq([i \in 1..Len(disposeLog') |->
               [key |-> disposeLog'[i].key, value |-> disposeLog'[i].value,
                reason |-> disposeLog'[i].reason]],
            LAMBDA d : d.reason = OVERWRITTEN)

\* totalSize loses the old entry's size (and gains the new entry's, less what
\* prune removed), and dispose is called once with (old value, key,
\* OVERWRITTEN) unless noDisposeOnSet
C11_SizeAndDispose ==
  LET old == nodes[MapGet(cache, lastOp'.key)]
  IN /\ totalSize' = totalSize - old.size + lastOp'.size
                       - C11_OtherRemoved(removed', 1)
     /\ options.dispose # NoCallback =>
          C11_OverwriteDisposals =
            IF options.noDisposeOnSet
            THEN <<>>
            ELSE <<[key |-> lastOp'.key, value |-> old.value,
                    reason |-> OVERWRITTEN]>>

\* a following get returns the new value and the key has exactly one entry
C11_NewValueHeld ==
  /\ get(Cur', lastOp'.key).ret = lastOp'.value
  /\ Cardinality({i \in 1..Len(cache') : cache'[i].key = lastOp'.key}) = 1
  /\ Cardinality({i \in 1..Len(ListKeys(Cur')) :
                     ListKeys(Cur')[i] = lastOp'.key}) = 1

\* C11 as claimed: set on a present key replaces the value, so that a
\* following get returns the new value, subtracts the old size from totalSize
\* and leaves exactly one entry for the key; dispose is called once with
\* (old value, key, OVERWRITTEN) unless noDisposeOnSet
C11_OverwriteReplaces ==
  [][C11_Overwrite => C11_NewValueHeld /\ C11_SizeAndDispose]_vars

\* C11 as amended: as claimed, except that a new entry whose own size exceeds
\* maxSize is evicted before set returns and the key is left without an entry
C11_OverwriteReplacesUnlessOversized ==
  [][C11_Overwrite =>
       /\ C11_SizeAndDispose
       /\ IF options.maxSize < Infinity /\ lastOp'.size > options.maxSize
          THEN /\ ~MapHas(cache', lastOp'.key)
               /\ ~KeyInList(Cur', lastOp'.key)
               /\ get(Cur', lastOp'.key).ret = Undefined
          ELSE C11_NewValueHeld]_vars

\* a set has replaced a value by another one, with a dispose call for the old
C11_Witness ==
  /\ lastOp.name = "set"
  /\ MapHas(cache, lastOp.key)
  /\ Len(cache) = 2
  /\ \E i \in 1..Len(removed) :
        /\ removed[i].via = "overwrite"
        /\ removed[i].value # lastOp.value
  /\ \E i \in 1..Len(disposeLog) : disposeLog[i].reason = OVERWRITTEN

C13_HasOnlyFresh ==
  lastOp.name = "has" /\ lastOp.ret = 1 =>
    /\ MapHas(cache, lastOp.key)
    /\ LET n == nodes[MapGet(cache, lastOp.key)]
       IN n.expiry = Null \/ n.expiry > now

\* C14: has and peek change neither the index, the list and its order,
\* totalSize, hits nor misses, and call no dispose callback
C14_HasPeekPure ==
  [][lastOp'.name \in {"has", "peek"} =>
       /\ UNCHANGED <<cache, nodes, head, tail, length, totalSize, hits,
                      misses>>
       /\ ListKeys(Cur') = ListKeys(Cur)
       /\ disposeLog' = <<>>
       /\ removed' = <<>>]_vars

\* has was called on a held entry past its expiry with allowStale off, and
\* the entry is still held
C14_Witness ==
  /\ ~options.allowStale
  /\ options.dispose # NoCallback
  /\ lastOp.name = "has"
  /\ lastOp.ret = 0
  /\ MapHas(cache, lastOp.key)
  /\ nodes[MapGet(cache, lastOp.key)].expiry # Null
  /\ nodes[MapGet(cache, lastOp.key)].expiry < now
  /\ Len(cache) = 2

\* the (key, value) pairs a reader of cache s gets
Readable(s) ==
  {<<k, peek(s, k).ret>> : k \in {x \in Keys : peek(s, x).ret # Undefined}}

\* the (key, value) pairs of the held entries with no expiry or one after now
NonExpired(s) ==
  {<<s.cache[i].key, s.nodes[s.cache[i].node].value>> :
     i \in {j \in 1..Len(s.cache) :
               LET n == s.nodes[s.cache[j].node]
               IN n.expiry = Null \/ n.expiry > s.now}}

\* the (key, value) pairs of all held entries
AllHeld(s) ==
  {<<s.cache[i].key, s.nodes[s.cache[i].node].value>> : i \in 1..Len(s.cache)}

\* the cache that deserialize builds at time t from the array the last
\* serialize call returned
RoundTrip(t) == Normalize(deserialize(Fresh(t), lastOp.data))

\* every entry of the original with time left has the same time left in f
Rebased(f) ==
  \A i \in 1..Len(cache) :
     LET n == nodes[cache[i].node]
     IN n.expiry # Null /\ n.expiry > now =>
          /\ MapHas(f.cache, cache[i].key)
          /\ f.nodes[MapGet(f.cache, cache[i].key)].expiry - f.now
               = n.expiry - now

\* C15 as claimed: serialize, then deserialize into a fresh cache of the same
\* configuration, gives a cache whose readable pairs are the non-expired
\* pairs of the original, each remaining ttl counted from the new instant
C15_RoundTripNonExpired ==
  lastOp.name = "serialize" =>
    \A t \in now..MaxTime :
       /\ Readable(RoundTrip(t)) = NonExpired(Cur)
       /\ Rebased(RoundTrip(t))

\* C15 as amended: with allowStale on, the expired entries still held come
\* through as well
C15_RoundTripSerialized ==
  lastOp.name = "serialize" =>
    \A t \in now..MaxTime :
       /\ Readable(RoundTrip(t)) =
            IF options.allowStale THEN AllHeld(Cur) ELSE NonExpired(Cur)
       /\ Rebased(RoundTrip(t))

\* serialize returned an entry with time left and left an expired one out,
\* and there is a later instant to deserialize at
C15_Witness ==
  /\ lastOp.name = "serialize"
  /\ ~options.allowStale
  /\ now > 0
  /\ now < MaxTime
  /\ Len(lastOp.data) < Len(cache)
  /\ \E i \in 1..Len(lastOp.data) : lastOp.data[i].options.ttl # Undefined

\* the array serialize is to return: the held entries in index order, the
\* expired ones left out unless allowStale, each with its size and with the
\* time it has left if any
C20_Emitted ==
  LET kept == SelectSeq(cache,
                LAMBDA e : \/ nodes[e.node].expiry = Null
                           \/ nodes[e.node].expiry > now
                           \/ options.allowStale)
  IN [i \in 1..Len(kept) |->
        LET n == nodes[kept[i].node]
        IN [key |-> kept[i].key, value |-> n.value,
            options |-> [size |-> n.size,
                         ttl |-> IF n.expiry # Null /\ n.expiry - now > 0
                                 THEN n.expiry - now
                                 ELSE Undefined]]]

\* C20: serialize emits one tuple per held entry, the expired ones left out
\* when allowStale is off, each with the entry's size and with the remaining
\* ttl when that is positive, and changes nothing in the cache
C20_SerializeEmits ==
  /\ [](lastOp.name = "serialize" => lastOp.data = C20_Emitted)
  /\ [][lastOp'.name = "serialize" =>
          /\ UNCHANGED <<cache, nodes, head, tail, length, totalSize, hits,
                         misses>>
          /\ disposeLog' = <<>>
          /\ removed' = <<>>]_vars

\* serialize of a cache that allows stale reads returned an expired entry
\* without ttl next to one with time left
C20_Witness ==
  /\ lastOp.name = "serialize"
  /\ options.allowStale
  /\ \E i \in 1..Len(lastOp.data) : lastOp.data[i].options.ttl = Undefined
  /\ \E i \in 1..Len(lastOp.data) : lastOp.data[i].options.ttl # Undefined

\* C16: hits and misses never decrease; a get adds one to misses when it
\* returns absent and one to hits when it returns a value, and leaves the
\* other counter alone; no other call changes either
C16_CountersCountGets ==
  [][/\ hits' >= hits
     /\ misses' >= misses
     /\ lastOp'.name = "get" =>
          IF lastOp'.ret = Undefined
          THEN misses' = misses + 1 /\ hits' = hits
          ELSE hits' = hits + 1 /\ misses' = misses
     /\ lastOp'.name # "get" => UNCHANGED <<hits, misses>>]_vars

\* a get found its entry expired, removed it and counted a miss
C16_Witness ==
  /\ lastOp.name = "get"
  /\ lastOp.ret = Undefined
  /\ misses = 1
  /\ hits = 0
  /\ removed # <<>>

\* the key of the call that is about to return is held with an expiry at or
\* before now
C17_KeyExpired ==
  /\ MapHas(cache, lastOp'.key)
  /\ nodes[MapGet(cache, lastOp'.key)].expiry # Null
  /\ nodes[MapGet(cache, lastOp'.key)].expiry <= now

\* no held entry has an expiry at or before now
C17_NoneExpired ==
  \A i \in 1..Len(cache) :
     ~(nodes[cache[i].node].expiry # Null /\ nodes[cache[i].node].expiry <= now)

\* C17: with allowStale off, a get of an expired entry removes it from the
\* index and the list, reduces totalSize by its size and disposes it with
\* EXPIRED; when prune returns no held entry has expiry <= now
C17_ExpiredRemoved ==
  /\ [](lastOp.name = "prune" => C17_NoneExpired)
  /\ [][~options.allowStale /\ lastOp'.name = "get" /\ C17_KeyExpired =>
          LET old == nodes[MapGet(cache, lastOp'.key)]
          IN /\ ~MapHas(cache', lastOp'.key)
             /\ ~KeyInList(Cur', lastOp'.key)
             /\ totalSize' = totalSize - old.size
             /\ options.dispose # NoCallback =>
                  \E i \in 1..Len(disposeLog') :
                     /\ disposeLog'[i].key = lastOp'.key
                     /\ disposeLog'[i].value = old.value
                     /\ disposeLog'[i].reason = EXPIRED]_vars

\* C18: with allowStale on, a get of an expired entry that is still held adds
\* one to hits and changes nothing else: not the order of the list, the
\* index, totalSize or misses, and nothing is disposed
C18_StaleGetOnlyCounts ==
  [][options.allowStale /\ lastOp'.name = "get" /\ C17_KeyExpired =>
       /\ hits' = hits + 1
       /\ ListKeys(Cur') = ListKeys(Cur)
       /\ UNCHANGED <<cache, nodes, head, tail, length, totalSize, misses>>
       /\ disposeLog' = <<>>
       /\ removed' = <<>>]_vars

\* the entries of s other than key, in index order
C19_Others(s, key) ==
  LET rest == SelectSeq(s.cache, LAMBDA e : e.key # key)
  IN [i \in 1..Len(rest) |->
        [key |-> rest[i].key, value |-> s.nodes[rest[i].node].value,
         size |-> s.nodes[rest[i].node].size,
         expiry |-> s.nodes[rest[i].node].expiry]]

\* C19: delete returns true exactly when the index held the key; then the
\* key is gone, totalSize is less by the entry's size, and the other entries,
\* their order in the list, hits and misses are as before; after false
\* nothing has changed and nothing was disposed
C19_DeleteRemovesOne ==
  [][lastOp'.name = "delete" =>
       IF MapHas(cache, lastOp'.key)
       THEN /\ lastOp'.ret = 1
            /\ ~MapHas(cache', lastOp'.key)
            /\ ~KeyInList(Cur', lastOp'.key)
            /\ totalSize' = totalSize - nodes[MapGet(cache, lastOp'.key)].size
            /\ C19_Others(Cur', lastOp'.key) = C19_Others(Cur, lastOp'.key)
            /\ ListKeys(Cur') =
                 SelectSeq(ListKeys(Cur), LAMBDA k : k # lastOp'.key)
            /\ UNCHANGED <<hits, misses>>
       ELSE /\ lastOp'.ret = 0
            /\ UNCHANGED <<cache, nodes, head, tail, length, totalSize, hits,
                           misses>>
            /\ disposeLog' = <<>>
            /\ removed' = <<>>]_vars

\* delete took an expired entry out and left another entry held
C19_Witness ==
  /\ lastOp.name = "delete"
  /\ lastOp.ret = 1
  /\ Len(removed) = 1
  /\ removed[1].expiry # Null
  /\ removed[1].expiry < now
  /\ Len(cache) >= 1

\* a tuple of persisted data is malformed: negative size or a ttl that is
\* not finite
C21_IsMalformed(tuple) ==
  \/ tuple.options.size # Undefined /\ tuple.options.size < 0
  \/ tuple.options.ttl >= Infinity

\* the sizes of the well-formed tuples of data from position i on
RECURSIVE C21_WellFormedSize(_, _)
C21_WellFormedSize(data, i) ==
  IF i > Len(data)
  THEN 0
  ELSE (IF C21_IsMalformed(data[i]) THEN 0 ELSE data[i].options.size)
       + C21_WellFormedSize(data, i + 1)

\* C21: deserialize skips a malformed tuple and only that one: its entry is
\* not inserted, the well-formed tuples are restored, and totalSize is the
\* sum of their non-negative sizes
C21_MalformedSkipped ==
  lastOp.name = "deserialize" /\ lastOp.data # <<>> =>
    /\ \A i \in 1..Len(lastOp.data) :
          IF C21_IsMalformed(lastOp.data[i])
          THEN ~MapHas(cache, lastOp.data[i].key)
          ELSE /\ MapHas(cache, lastOp.data[i].key)
               /\ nodes[MapGet(cache, lastOp.data[i].key)].value
                    = lastOp.data[i].value
    /\ \A i \in 1..Len(cache) : nodes[cache[i].node].size >= 0
    /\ totalSize = C21_WellFormedSize(lastOp.data, 1)

\* q back to front
Reverse(q) == [i \in 1..Len(q) |-> q[Len(q) + 1 - i]]

\* the list fields of a cache record
C22_List(s) ==
  [nodes |-> s.nodes, head |-> s.head, tail |-> s.tail, length |-> s.length]

\* C22: head.prev and tail.next are null, next from head visits length
\* distinct nodes ending at tail, prev from tail visits them in reverse, a
\* node out of the list has no links, and moveToFront(n) is remove(n) then
\* addToFront(n), and nothing at all on the head
C22_ListWellFormed ==
  LET fwd == Walk(nodes, head, Cardinality(NodeIds) + 1)
      back == WalkBack(nodes, tail, Cardinality(NodeIds) + 1)
  IN /\ (head = Null) = (tail = Null)
     /\ head # Null => nodes[head].prev = Null /\ nodes[tail].next = Null
     /\ Len(fwd) = length
     /\ Cardinality(SeqSet(fwd)) = length
     /\ fwd # <<>> => fwd[Len(fwd)] = tail
     /\ back = Reverse(fwd)
     /\ \A n \in DOMAIN nodes \ SeqSet(fwd) :
           nodes[n].prev = Null /\ nodes[n].next = Null
     /\ \A n \in SeqSet(fwd) :
           /\ C22_List(moveToFront(Cur, n))
                = C22_List(addToFront(remove(Cur, n), n))
           /\ n = head => C22_List(moveToFront(Cur, n)) = C22_List(Cur)

\* moveToFront has brought a node to the head of a list of three while a
\* fourth node is out of the list
C22_Witness ==
  /\ lastOp.name = "moveToFront"
  /\ length = 3
  /\ head = lastOp.ret
  /\ DOMAIN nodes = NodeIds
  /\ nodes[head].next # Null
  /\ nodes[nodes[head].next].next = tail

\* C23: with max >= 1 and a new entry no larger than maxSize, the entry set
\* has written is held when set returns: has is true and get returns the
\* value
C23_NewEntryHeld ==
  /\ lastOp.name = "set"
  /\ options.max >= 1
  /\ lastOp.size <= options.maxSize
  => /\ MapHas(cache, lastOp.key)
     /\ head = MapGet(cache, lastOp.key)
     /\ has(Cur, lastOp.key).ret = 1
     /\ get(Cur, lastOp.key).ret = lastOp.value

\* set has made room for its entry in a size-bounded cache by evicting every
\* older entry
C23_Witness ==
  /\ lastOp.name = "set"
  /\ options.maxSize < Infinity
  /\ lastOp.size <= options.maxSize
  /\ Cardinality(ViaKeys(removed, "removeTail")) >= 2
  /\ MapKeys(cache) = {lastOp.key}

\* C24: prune returns the number of entries it removed in both phases, and
\* a second prune at the same clock value returns 0, removes nothing, calls
\* no dispose callback and leaves the cache as it is
C24_PruneCountsAndSettles ==
  lastOp.name = "prune" =>
    /\ lastOp.ret = Len(removed)
    /\ LET again == Normalize(prune(Cur))
       IN /\ again.ret = 0
          /\ again.removed = <<>>
          /\ again.disposeLog = <<>>
          /\ again = [Cur EXCEPT !.ret = 0]

\* prune has removed expired entries and has more to say than zero
C24_Witness ==
  /\ lastOp.name = "prune"
  /\ lastOp.ret >= 2
  /\ ViaKeys(removed, "delete") # {}
  /\ options.dispose # NoCallback

\* C25: with a dispose callback that calls set or delete on the cache, size
\* still equals the list length, the index keys are the keys linked in the
\* list and totalSize is the sum of the held sizes once delete, set, clear or
\* prune has returned
C25_ReentrantConsistent ==
  lastOp.name \in {"delete", "set", "clear", "prune"} =>
    /\ size(Cur) = length
    /\ length = Len(ListNodes(Cur))
    /\ MapKeys(cache) = SeqSet(ListKeys(Cur))
    /\ totalSize = SumSizes(Cur, 1)

====
